---- MODULE Spec2Model ----
(***************************************************************************)
(* SoleCast: the material-requisition lifecycle and the BOM costing        *)
(* engine.  The store is the SQLite schema of database.py (materials, bom, *)
(* material_requests, request_line_items, sales_history and the            *)
(* AUTOINCREMENT counters);                                                *)
(* the employee dashboard's cost calculator feeds submit_material_request. *)
(*                                                                         *)
(* Modelling conventions                                                   *)
(*  - a table is the set of its rows, a row is a record of its columns;    *)
(*  - prices and costs are whole currency units (the REAL columns hold     *)
(*    products and sums of them);                                          *)
(*  - columns no operation here reads (employee, request_date) are left    *)
(*    out of the rows;                                                     *)
(*  - a statement of a transaction may raise a storage error: the input    *)
(*    `fault` of an operation is the number of statements that succeed     *)
(*    before the error; a fault beyond the last statement is never raised; *)
(*  - `last` records the last call: operation, arguments and outcome.      *)
(*                                                                         *)
(* Specifications                                                          *)
(*  - Spec: the employee dashboard on a store the admin has set up:        *)
(*    choosing product and quantity, calculating, submitting;              *)
(*  - SpecLifecycle: database.py's lifecycle operations on a store that     *)
(*    holds one submitted request;                                         *)
(*  - SpecCosting: the cost calculator over stores with any stock levels;  *)
(*  - SpecMaterials: the admin's "Manage Materials" form (save, delete);    *)
(*  - SpecImport: the materials CSV import;                                *)
(*  - SpecBom: the admin's "Manage BOM" form (save, delete);               *)
(*  - SpecSales: the historical sales import and the entry of current      *)
(*    sales;                                                               *)
(*  - SpecReport: current sales and the consumption report;                *)
(*  - SpecTwoRequests: approval and receipt of two requests calculated on  *)
(*    the same stock;                                                      *)
(*  - SpecAdmin: one session of the admin's "Material Requests" tab.       *)
(***************************************************************************)
EXTENDS Integers, Sequences, FiniteSets, TLC

VARIABLES
    materials,              \* table materials
    bom,                    \* table bom
    material_requests,      \* table material_requests (headers)
    request_line_items,     \* table request_line_items
    sales_history,          \* table sales_history
    sqlite_sequence,        \* AUTOINCREMENT counters, one per table
    cost_product_combo,     \* EmployeeDashboard: selected product
    cost_quantity_spinbox,  \* EmployeeDashboard: number of pairs
    cost_table,             \* EmployeeDashboard: the displayed breakdown
    current_line_items,     \* EmployeeDashboard: cache for submission
    current_total_cost,     \* EmployeeDashboard: cached total
    submit_request_button,  \* EmployeeDashboard: button enabled
    requests_tab,           \* AdminDashboard: the "Material Requests" tab
    last                    \* the last call: operation, arguments, outcome

vars == <<materials, bom, material_requests, request_line_items,
          sales_history, sqlite_sequence, cost_product_combo, cost_quantity_spinbox,
          cost_table, current_line_items, current_total_cost,
          submit_request_button, requests_tab, last>>

store == <<materials, bom, material_requests, request_line_items,
           sales_history, sqlite_sequence>>

calculator == <<cost_table, current_line_items, current_total_cost,
                submit_request_button>>

employee == <<cost_product_combo, cost_quantity_spinbox, cost_table,
              current_line_items, current_total_cost, submit_request_button>>

-----------------------------------------------------------------------------
(* Bounds of the model *)

MaxRequests == 1
MaxQuantity == 3
MaxStock == 7
MaxFault == 4
MaxMaterialId == 5
MaxBomId == 5
MaxFormStock == 1
MaxCsvRows == 2
MaxSales == 3
MaxSalesId == 27

(* Values of the program *)

SpinMinimum == 1
Statuses == {"Pending", "Approved", "Rejected", "Completed"}
NoProductsText == "(No products found)"
Products == {"ShoeA", "Sneaker"}
MaterialNames == {"Leather", "Rubber", "Suede"}
\* the ids a caller may pass: those of created requests and one never created
RequestIds == 1..(MaxRequests + 1)
Quantities == SpinMinimum..MaxQuantity
FaultPoints == 0..MaxFault
\* the stock spin box of the "Manage Materials" form starts at 0
FormStocks == 0..MaxFormStock
\* the quantity spin box of the "Manage BOM" form starts at 1
BomQuantities == 1..MaxQuantity
HistoricalYear == 2024
MonthNames ==
    <<"January", "February", "March", "April", "May", "June",
      "July", "August", "September", "October", "November", "December">>
\* month_map: the number of each month column
Months == DOMAIN MonthNames
NoProductsAdminText == "(No products)"

-----------------------------------------------------------------------------
(* Helpers *)

Max(a, b) == IF a > b THEN a ELSE b

Min(a, b) == IF a < b THEN a ELSE b

\* every order in which a SELECT without ORDER BY may return the rows S
Orderings(S) ==
    {s \in [1..Cardinality(S) -> S] : \A i, j \in DOMAIN s : i # j => s[i] # s[j]}

NoCall ==
    [op |-> "none", request_id |-> 0, new_status |-> "", product_name |-> "",
     production_quantity |-> 0, total_cost |-> 0, line_items |-> <<>>,
     args |-> <<>>, consumption |-> <<>>, fault |-> 0, result |-> "ok"]

Tables == [materials |-> materials, bom |-> bom,
           material_requests |-> material_requests,
           request_line_items |-> request_line_items,
           sales_history |-> sales_history]

SetTables(t) ==
    /\ materials' = t.materials
    /\ bom' = t.bom
    /\ material_requests' = t.material_requests
    /\ request_line_items' = t.request_line_items
    /\ sales_history' = t.sales_history

-----------------------------------------------------------------------------
(* database.py: reads *)

\* SELECT ... FROM bom b JOIN materials m ON b.material_id = m.material_id
\* WHERE b.product_id = ?
get_bom_for_product(t, product_name) ==
    {[name |-> p[2].name, quantity_per_unit |-> p[1].quantity_per_unit,
      stock |-> p[2].stock, price |-> p[2].price,
      unit_of_measure |-> p[2].unit_of_measure] :
        p \in {p \in t.bom \X t.materials :
                 /\ p[1].material_id = p[2].material_id
                 /\ p[1].product_id = product_name}}

\* SELECT * FROM request_line_items WHERE request_id = ?
get_request_line_items(t, request_id) ==
    {i \in t.request_line_items : i.request_id = request_id}

-----------------------------------------------------------------------------
(* employee_dashboard.py: the cost calculator *)

TotalRequired(quantity_to_produce, required_per_unit) ==
    quantity_to_produce * required_per_unit

\* the shortfall without the clamp at zero
NeedToOrderUnclamped(total_required, in_stock) ==
    total_required - in_stock

\* the difference taken the other way round: what the stock leaves over
NeedToOrderSurplus(total_required, in_stock) ==
    Max(0, in_stock - total_required)

NeedToOrder(total_required, in_stock) ==
    Max(0, total_required - in_stock)

LineCost(need_to_order, price) ==
    need_to_order * price

\* one row of the breakdown table, computed from one joined BOM row
CostTableRow(item, quantity_to_produce) ==
    LET total_required == TotalRequired(quantity_to_produce, item.quantity_per_unit)
        need_to_order == NeedToOrder(total_required, item.stock)
    IN  [material |-> item.name,
         total_required |-> total_required,
         in_stock |-> item.stock,
         need_to_order |-> need_to_order,
         unit |-> item.unit_of_measure,
         cost |-> LineCost(need_to_order, item.price)]

\* the entry cached for submission
LineItemCache(row) ==
    [material_name |-> row.material,
     quantity_needed |-> row.need_to_order,
     unit_of_measure |-> row.unit,
     cost |-> row.cost]

\* the costs of rows, added up
RECURSIVE SumCosts(_)
SumCosts(rows) ==
    IF rows = <<>> THEN 0 ELSE rows[1].cost + SumCosts(Tail(rows))

\* a total that is not reset to 0.0: it goes on from the cached total
TotalCostAccumulating(rows) ==
    current_total_cost + SumCosts(rows)

\* "total_cost += cost", row after row, from 0.0
RECURSIVE TotalCost(_)
TotalCost(rows) ==
    IF rows = <<>> THEN 0
    ELSE TotalCost(SubSeq(rows, 1, Len(rows) - 1)) + rows[Len(rows)].cost

\* a loop that skips the materials whose stock covers the requirement
CostBreakdownSkippingCovered(bom_items, quantity_to_produce) ==
    LET short == SelectSeq(bom_items, LAMBDA item :
                     TotalRequired(quantity_to_produce, item.quantity_per_unit) > item.stock)
        rows == [row \in DOMAIN short |-> CostTableRow(short[row], quantity_to_produce)]
    IN  [cost_table |-> rows,
         line_items |-> [row \in DOMAIN rows |-> LineItemCache(rows[row])],
         total_cost |-> TotalCost(rows)]

\* the loop of calculate_material_cost over the rows of the BOM
CostBreakdown(bom_items, quantity_to_produce) ==
    LET rows == [row \in DOMAIN bom_items |->
                    CostTableRow(bom_items[row], quantity_to_produce)]
    IN  [cost_table |-> rows,
         line_items |-> [row \in DOMAIN rows |-> LineItemCache(rows[row])],
         total_cost |-> TotalCost(rows)]

\* a clear that empties the table and disables the button but keeps the
\* cached line items
clear_cost_calculator_keeping_line_items ==
    /\ cost_table' = <<>>
    /\ UNCHANGED current_line_items
    /\ current_total_cost' = 0
    /\ submit_request_button' = FALSE

\* a clear that empties the table and the caches but leaves the button alone
clear_cost_calculator_keeping_button ==
    /\ cost_table' = <<>>
    /\ current_line_items' = <<>>
    /\ current_total_cost' = 0
    /\ UNCHANGED submit_request_button

clear_cost_calculator ==
    /\ cost_table' = <<>>
    /\ current_line_items' = <<>>
    /\ current_total_cost' = 0
    /\ submit_request_button' = FALSE

\* the user picks a product in the combo box
SelectProduct(p) ==
    /\ p # cost_product_combo
    /\ cost_product_combo' = p
    /\ last' = [NoCall EXCEPT !.op = "select_product", !.product_name = p]
    /\ UNCHANGED <<store, requests_tab, cost_quantity_spinbox, calculator>>

\* the user edits the number of pairs
SetQuantity(q) ==
    /\ q # cost_quantity_spinbox
    /\ cost_quantity_spinbox' = q
    /\ last' = [NoCall EXCEPT !.op = "set_quantity", !.production_quantity = q]
    /\ UNCHANGED <<store, requests_tab, cost_product_combo, calculator>>

\* "Request Updated Inventory": reloads the table and clears the calculator
load_materials_data ==
    /\ clear_cost_calculator
    /\ last' = [NoCall EXCEPT !.op = "load_materials_data"]
    /\ UNCHANGED <<store, requests_tab, cost_product_combo, cost_quantity_spinbox>>

calculate_material_cost ==
    LET selected_product == cost_product_combo
        quantity_to_produce == cost_quantity_spinbox
        call == [NoCall EXCEPT !.op = "calculate",
                               !.product_name = selected_product,
                               !.production_quantity = quantity_to_produce]
    IN
    /\ UNCHANGED <<store, requests_tab, cost_product_combo, cost_quantity_spinbox>>
    /\ IF selected_product = NoProductsText
       THEN /\ clear_cost_calculator
            /\ last' = [call EXCEPT !.result = "warning"]
       ELSE \E bom_items \in Orderings(get_bom_for_product(Tables, selected_product)) :
              IF bom_items = <<>>
              THEN /\ clear_cost_calculator
                   /\ last' = [call EXCEPT !.result = "error"]
              ELSE LET breakdown == CostBreakdown(bom_items, quantity_to_produce)
                   IN  /\ cost_table' = breakdown.cost_table
                       /\ current_line_items' = breakdown.line_items
                       /\ current_total_cost' = breakdown.total_cost
                       /\ submit_request_button' = TRUE
                       /\ last' = call

-----------------------------------------------------------------------------
(* database.py: transactions *)

\* an except block that forgets conn.rollback() and commits what was done
RollbackMissing(before, partial) == partial

\* conn.rollback(): the tables as they were before the transaction
Rollback(before, partial) == before

\* a transaction of n writes and a commit: a fault after k statements is
\* raised within it when k <= n
Raised(fault, n) == fault <= n

\* the loop without the "quantity_needed > 0" test
ItemsToInsertUnfiltered(line_items) ==
    line_items

\* a test that also drops the items of which one unit is needed
ItemsToInsertAboveOne(line_items) ==
    SelectSeq(line_items, LAMBDA item : item.quantity_needed > 1)

\* "if item['quantity_needed'] > 0": only items that need to be ordered
ItemsToInsert(line_items) ==
    SelectSeq(line_items, LAMBDA item : item.quantity_needed > 0)

\* the tables after the first k INSERTs of submit_material_request
SubmitApplied(t, seq, product_name, production_quantity, total_cost, line_items, k) ==
    LET request_id == seq.material_requests + 1
        items_to_insert == ItemsToInsert(line_items)
        header == [request_id |-> request_id,
                   product_name |-> product_name,
                   production_quantity |-> production_quantity,
                   total_cost |-> total_cost,
                   status |-> "Pending"]
        inserted == Min(k - 1, Len(items_to_insert))
        rows == {[item_id |-> seq.request_line_items + i,
                  request_id |-> request_id,
                  material_name |-> items_to_insert[i].material_name,
                  quantity_needed |-> items_to_insert[i].quantity_needed,
                  unit_of_measure |-> items_to_insert[i].unit_of_measure,
                  cost |-> items_to_insert[i].cost] : i \in 1..inserted}
    IN  IF k = 0
        THEN [t |-> t, seq |-> seq]
        ELSE [t |-> [t EXCEPT !.material_requests = @ \cup {header},
                              !.request_line_items = @ \cup rows],
              seq |-> [seq EXCEPT !.material_requests = request_id,
                                  !.request_line_items = @ + inserted]]

\* the outcome of submit_material_request: the tables it leaves, and whether
\* it returned the new request_id or raised
submit_material_request(t, seq, product_name, production_quantity, total_cost, line_items, fault) ==
    LET n == 1 + Len(ItemsToInsert(line_items))
        before == [t |-> t, seq |-> seq]
    IN  IF Raised(fault, n)
        THEN [after |-> Rollback(before, SubmitApplied(t, seq, product_name,
                            production_quantity, total_cost, line_items, fault)),
              raised |-> TRUE, request_id |-> 0]
        ELSE [after |-> SubmitApplied(t, seq, product_name, production_quantity,
                            total_cost, line_items, n),
              raised |-> FALSE, request_id |-> seq.material_requests + 1]

\* EmployeeDashboard.submit_material_request: "Send Request to Admin".
\* reply is the answer to the confirmation dialog.
EmployeeDashboard_submit_material_request(reply, fault) ==
    LET product_name == cost_product_combo
        production_quantity == cost_quantity_spinbox
        call == [NoCall EXCEPT !.op = "submit",
                               !.product_name = product_name,
                               !.production_quantity = production_quantity,
                               !.total_cost = current_total_cost,
                               !.line_items = current_line_items]
    IN
    /\ UNCHANGED <<cost_product_combo, cost_quantity_spinbox, requests_tab>>
    /\ IF current_line_items = <<>> \/ ~submit_request_button
       THEN /\ reply = "Yes" /\ fault = 0
            /\ last' = [call EXCEPT !.result = "warning"]
            /\ UNCHANGED <<store, calculator>>
       ELSE IF reply = "No"
       THEN /\ fault = 0
            /\ last' = [call EXCEPT !.result = "cancelled"]
            /\ UNCHANGED <<store, calculator>>
       ELSE LET out == submit_material_request(Tables, sqlite_sequence,
                           product_name, production_quantity,
                           current_total_cost, current_line_items, fault)
            IN  /\ sqlite_sequence.material_requests < MaxRequests
                /\ fault <= 2 + Len(ItemsToInsert(current_line_items))
                /\ SetTables(out.after.t)
                /\ sqlite_sequence' = out.after.seq
                /\ IF out.raised
                   THEN /\ last' = [call EXCEPT !.fault = fault, !.result = "error"]
                        /\ UNCHANGED calculator
                   ELSE /\ last' = [call EXCEPT !.fault = fault,
                                                !.request_id = out.request_id]
                        /\ clear_cost_calculator

-----------------------------------------------------------------------------
(* database.py: the request lifecycle *)

\* UPDATE material_requests SET status = ? WHERE request_id = ?
SetStatus(requests, request_id, new_status) ==
    {IF r.request_id = request_id THEN [r EXCEPT !.status = new_status] ELSE r :
        r \in requests}

update_request_status(request_id, new_status) ==
    /\ material_requests' = SetStatus(material_requests, request_id, new_status)
    /\ last' = [NoCall EXCEPT !.op = "update_request_status",
                              !.request_id = request_id,
                              !.new_status = new_status]
    /\ UNCHANGED <<materials, bom, request_line_items, sales_history,
                   sqlite_sequence, employee>>

\* SQLite enforces foreign keys, and so runs ON DELETE CASCADE, only on a
\* connection that executed PRAGMA foreign_keys = ON
ForeignKeysDefault == FALSE

\* DELETE FROM material_requests WHERE request_id = ?, on a connection whose
\* foreign-key enforcement is foreign_keys
DeleteRequest(t, request_id, foreign_keys) ==
    [t EXCEPT !.material_requests = {r \in @ : r.request_id # request_id},
              !.request_line_items =
                  IF foreign_keys /\ \E r \in t.material_requests : r.request_id = request_id
                  THEN {i \in @ : i.request_id # request_id}
                  ELSE @]

delete_material_request(request_id) ==
    /\ SetTables(DeleteRequest(Tables, request_id, ForeignKeysDefault))
    /\ last' = [NoCall EXCEPT !.op = "delete_material_request",
                              !.request_id = request_id]
    /\ UNCHANGED <<sqlite_sequence, employee>>

\* an UPDATE that sets the stock to the received quantity: SET stock = ?
AddStockReplacing(mats, item) ==
    {IF m.name = item.material_name
     THEN [m EXCEPT !.stock = item.quantity_needed] ELSE m : m \in mats}

\* UPDATE materials SET stock = stock + ? WHERE name = ?
AddStock(mats, item) ==
    {IF m.name = item.material_name
     THEN [m EXCEPT !.stock = @ + item.quantity_needed] ELSE m : m \in mats}

\* the materials after the UPDATEs of the first k line items
RECURSIVE ReceiveStock(_, _, _)
ReceiveStock(mats, line_items, k) ==
    IF k = 0 THEN mats
    ELSE AddStock(ReceiveStock(mats, line_items, k - 1), line_items[k])

\* a receive that completes the request only when every UPDATE found its
\* material
ReceiveAppliedCheckingNames(t, request_id, line_items, k) ==
    [t EXCEPT !.materials = ReceiveStock(@, line_items, Min(k, Len(line_items))),
              !.material_requests =
                  IF /\ k > Len(line_items)
                     /\ \A i \in DOMAIN line_items :
                            \E m \in t.materials : m.name = line_items[i].material_name
                  THEN SetStatus(@, request_id, "Completed") ELSE @]

\* the tables after the first k UPDATEs of receive_material_request_stock
ReceiveApplied(t, request_id, line_items, k) ==
    [t EXCEPT !.materials = ReceiveStock(@, line_items, Min(k, Len(line_items))),
              !.material_requests =
                  IF k > Len(line_items)
                  THEN SetStatus(@, request_id, "Completed") ELSE @]

receive_material_request_stock(request_id, fault) ==
    \E line_items \in Orderings(get_request_line_items(Tables, request_id)) :
        LET n == Len(line_items) + 1
            call == [NoCall EXCEPT !.op = "receive_material_request_stock",
                                   !.request_id = request_id]
        IN
        /\ UNCHANGED <<sqlite_sequence, employee>>
        /\ IF line_items = <<>>
           THEN \* "No line items found for this request."
                /\ fault = 0
                /\ SetTables(Rollback(Tables, Tables))
                /\ last' = [call EXCEPT !.result = "error"]
           ELSE IF Raised(fault, n)
           THEN /\ SetTables(Rollback(Tables,
                        ReceiveApplied(Tables, request_id, line_items, fault)))
                /\ last' = [call EXCEPT !.fault = fault, !.result = "error"]
           ELSE /\ fault = n + 1
                /\ \A m \in ReceiveApplied(Tables, request_id, line_items, n).materials :
                       m.stock <= MaxStock
                /\ SetTables(ReceiveApplied(Tables, request_id, line_items, n))
                /\ last' = [call EXCEPT !.fault = fault]

\* update_material as the "Manage Materials" form calls it when the admin
\* edits the name of the selected material; the other columns keep the
\* values the form was filled with.  UNIQUE(name) rejects a taken name.
update_material(mat_id, name) ==
    /\ \E m \in materials : m.material_id = mat_id /\ m.name # name
    /\ IF \E m \in materials : m.material_id # mat_id /\ m.name = name
       THEN /\ last' = [NoCall EXCEPT !.op = "update_material", !.result = "error"]
            /\ UNCHANGED materials
       ELSE /\ materials' = {IF m.material_id = mat_id
                             THEN [m EXCEPT !.name = name] ELSE m : m \in materials}
            /\ last' = [NoCall EXCEPT !.op = "update_material"]
    /\ UNCHANGED <<requests_tab, bom, material_requests, request_line_items, sales_history,
                   sqlite_sequence, employee>>

-----------------------------------------------------------------------------
(* database.py: materials *)

\* an INSERT or UPDATE that does not look at the other rows' names
NameTakenUnchecked(mats, mat_id, name) ==
    FALSE

\* UNIQUE(name): a row other than mat_id already holds the name
NameTaken(mats, mat_id, name) ==
    \E m \in mats : m.material_id # mat_id /\ m.name = name

\* the outcome of add_material: the tables it leaves, and whether the INSERT
\* raised sqlite3.IntegrityError
add_material(t, seq, name, stock, price, assoc, unit) ==
    IF NameTaken(t.materials, 0, name)
    THEN [after |-> [t |-> t, seq |-> seq], raised |-> TRUE]
    ELSE [after |->
            [t |-> [t EXCEPT !.materials = @ \cup
                       {[material_id |-> seq.materials + 1, name |-> name,
                         stock |-> stock, price |-> price,
                         product_association |-> assoc, unit_of_measure |-> unit]}],
             seq |-> [seq EXCEPT !.materials = @ + 1]],
          raised |-> FALSE]

\* the outcome of update_material with every column given:
\* UPDATE materials SET name = ?, stock = ?, ... WHERE material_id = ?
UpdateMaterial(t, mat_id, name, stock, price, assoc, unit) ==
    IF (\E m \in t.materials : m.material_id = mat_id)
       /\ NameTaken(t.materials, mat_id, name)
    THEN [after |-> t, raised |-> TRUE]
    ELSE [after |-> [t EXCEPT !.materials =
                        {IF m.material_id = mat_id
                         THEN [material_id |-> mat_id, name |-> name,
                               stock |-> stock, price |-> price,
                               product_association |-> assoc,
                               unit_of_measure |-> unit]
                         ELSE m : m \in @}],
          raised |-> FALSE]

\* a DELETE that ignores the rows of bom
DeleteMaterialUnrestricted(t, mat_id, foreign_keys) ==
    [after |-> [t EXCEPT !.materials = {m \in @ : m.material_id # mat_id}],
     raised |-> FALSE]

\* DELETE FROM materials WHERE material_id = ?, on a connection whose
\* foreign-key enforcement is foreign_keys: bom.material_id is ON DELETE
\* RESTRICT
DeleteMaterial(t, mat_id, foreign_keys) ==
    IF /\ foreign_keys
       /\ \E m \in t.materials : m.material_id = mat_id
       /\ \E b \in t.bom : b.material_id = mat_id
    THEN [after |-> t, raised |-> TRUE]
    ELSE [after |-> [t EXCEPT !.materials = {m \in @ : m.material_id # mat_id}],
          raised |-> FALSE]

\* delete_material runs PRAGMA foreign_keys = ON before the DELETE
delete_material(t, mat_id) ==
    DeleteMaterial(t, mat_id, TRUE)

\* an upsert whose conflict clause is missing: the row is always inserted
upsert_material_from_csv_insert_only(t, seq, row) ==
    [t |-> [t EXCEPT !.materials = @ \cup
               {[material_id |-> seq.materials + 1, name |-> row.name,
                 stock |-> row.stock, price |-> row.price,
                 product_association |-> row.product_association,
                 unit_of_measure |-> row.unit_of_measure]}],
     seq |-> [seq EXCEPT !.materials = @ + 1]]

\* INSERT INTO materials ... ON CONFLICT(name) DO UPDATE SET stock, price,
\* product_association, unit_of_measure.  SQLite draws the AUTOINCREMENT
\* rowid before it finds the conflict, so the counter advances either way.
upsert_material_from_csv(t, seq, row) ==
    [t |-> [t EXCEPT !.materials =
               IF \E m \in @ : m.name = row.name
               THEN {IF m.name = row.name
                     THEN [m EXCEPT !.stock = row.stock, !.price = row.price,
                                    !.product_association = row.product_association,
                                    !.unit_of_measure = row.unit_of_measure]
                     ELSE m : m \in @}
               ELSE @ \cup {[material_id |-> seq.materials + 1, name |-> row.name,
                             stock |-> row.stock, price |-> row.price,
                             product_association |-> row.product_association,
                             unit_of_measure |-> row.unit_of_measure]}],
     seq |-> [seq EXCEPT !.materials = @ + 1]]

-----------------------------------------------------------------------------
(* admin_dashboard.py: "Manage Materials" *)

\* AdminDashboard.save_material.  material_id is the form's id label: 0 for
\* "(New Material)", else the id of the row the form was filled from; name
\* and stock are what the admin typed; the other fields keep what the form
\* shows (the defaults of clear_material_form, or the selected row's values).
save_material(material_id, name, stock) ==
    LET call == [NoCall EXCEPT !.op = "save_material",
                               !.args = [material_id |-> material_id,
                                         name |-> name, stock |-> stock]]
    IN
    /\ UNCHANGED <<employee, requests_tab>>
    /\ IF name = ""
       THEN /\ last' = [call EXCEPT !.result = "warning"]
            /\ UNCHANGED store
       ELSE IF material_id = 0
       THEN LET out == add_material(Tables, sqlite_sequence, name, stock, 0,
                                    "P.E.", "pcs")
            IN  /\ sqlite_sequence.materials < MaxMaterialId
                /\ SetTables(out.after.t)
                /\ sqlite_sequence' = out.after.seq
                /\ last' = [call EXCEPT !.result =
                                IF out.raised THEN "error" ELSE "ok"]
       ELSE \E m \in materials :
              LET out == UpdateMaterial(Tables, material_id, name, stock, m.price,
                             m.product_association, m.unit_of_measure)
              IN  /\ m.material_id = material_id
                  /\ SetTables(out.after)
                  /\ UNCHANGED sqlite_sequence
                  /\ last' = [call EXCEPT !.result =
                                  IF out.raised THEN "error" ELSE "ok"]

\* AdminDashboard.delete_material on the selected row; reply is the answer
\* to the confirmation dialog
AdminDashboard_delete_material(material_id, reply) ==
    LET call == [NoCall EXCEPT !.op = "delete_material",
                               !.args = [material_id |-> material_id]]
        out == delete_material(Tables, material_id)
    IN
    /\ \E m \in materials : m.material_id = material_id
    /\ UNCHANGED <<sqlite_sequence, employee, requests_tab>>
    /\ IF reply = "No"
       THEN /\ last' = [call EXCEPT !.result = "cancelled"]
            /\ SetTables(Tables)
       ELSE /\ SetTables(out.after)
            /\ last' = [call EXCEPT !.result =
                            IF out.raised THEN "error" ELSE "ok"]

\* the tables after the first k rows of the file were upserted, each in a
\* transaction of its own
RECURSIVE UpsertRows(_, _, _, _)
UpsertRows(t, seq, rows, k) ==
    IF k = 0 THEN [t |-> t, seq |-> seq]
    ELSE LET done == UpsertRows(t, seq, rows, k - 1)
         IN  upsert_material_from_csv(done.t, done.seq, rows[k])

\* AdminDashboard.import_materials_csv: the loop over the rows of the file.
\* fault is the number of rows upserted before a row raises (a missing cell
\* fails NOT NULL); fault = Len(rows) is an import without error.
import_materials_csv(rows, fault) ==
    LET out == UpsertRows(Tables, sqlite_sequence, rows, fault)
    IN
    /\ fault <= Len(rows)
    /\ sqlite_sequence.materials + fault <= MaxMaterialId
    /\ SetTables(out.t)
    /\ sqlite_sequence' = out.seq
    /\ last' = [NoCall EXCEPT !.op = "import_materials_csv",
                              !.args = [rows |-> rows],
                              !.fault = fault,
                              !.result = IF fault < Len(rows) THEN "error" ELSE "ok"]
    /\ UNCHANGED <<employee, requests_tab>>

-----------------------------------------------------------------------------
(* database.py and admin_dashboard.py: the bill of materials *)

\* an INSERT without its conflict clause: the pair is always inserted
BomUpsertInsertOnly(bom_rows, bom_id, product_id, material_id, quantity) ==
    bom_rows \cup {[bom_id |-> bom_id, product_id |-> product_id,
                    material_id |-> material_id, quantity_per_unit |-> quantity]}

\* INSERT INTO bom ... ON CONFLICT(product_id, material_id) DO UPDATE SET
\* quantity_per_unit = excluded.quantity_per_unit
BomUpsert(bom_rows, bom_id, product_id, material_id, quantity) ==
    IF \E b \in bom_rows : b.product_id = product_id /\ b.material_id = material_id
    THEN {IF b.product_id = product_id /\ b.material_id = material_id
          THEN [b EXCEPT !.quantity_per_unit = quantity] ELSE b : b \in bom_rows}
    ELSE bom_rows \cup {[bom_id |-> bom_id, product_id |-> product_id,
                         material_id |-> material_id, quantity_per_unit |-> quantity]}

\* the outcome of add_bom_item: the material is looked up by name
\* ("Material not found" when there is none), then the entry is upserted;
\* the AUTOINCREMENT counter of bom advances with every upsert
add_bom_item(t, seq, product_name, material_name, quantity) ==
    LET result == {m \in t.materials : m.name = material_name}
        before == [t |-> t, seq |-> seq]
    IN  IF result = {}
        THEN [after |-> Rollback(before, before), raised |-> TRUE]
        ELSE LET material_id == (CHOOSE m \in result : TRUE).material_id
             IN  [after |->
                     [t |-> [t EXCEPT !.bom = BomUpsert(@, seq.bom + 1, product_name,
                                                        material_id, quantity)],
                      seq |-> [seq EXCEPT !.bom = @ + 1]],
                  raised |-> FALSE]

\* DELETE FROM bom WHERE bom_id = ?
delete_bom_item(t, bom_item_id) ==
    [t EXCEPT !.bom = {b \in @ : b.bom_id # bom_item_id}]

\* AdminDashboard.save_bom_item with the product, the material name and the
\* quantity of the form
save_bom_item(product_name, material_name, quantity) ==
    LET out == add_bom_item(Tables, sqlite_sequence, product_name, material_name,
                            quantity)
    IN
    /\ sqlite_sequence.bom < MaxBomId
    /\ SetTables(out.after.t)
    /\ sqlite_sequence' = out.after.seq
    /\ last' = [NoCall EXCEPT !.op = "save_bom_item",
                              !.product_name = product_name,
                              !.args = [material_name |-> material_name,
                                        quantity |-> quantity],
                              !.result = IF out.raised THEN "error" ELSE "ok"]
    /\ UNCHANGED <<employee, requests_tab>>

\* AdminDashboard.delete_bom_item on the selected row of the BOM table
AdminDashboard_delete_bom_item(bom_item_id, reply) ==
    /\ \E b \in bom : b.bom_id = bom_item_id
    /\ SetTables(IF reply = "Yes" THEN delete_bom_item(Tables, bom_item_id) ELSE Tables)
    /\ last' = [NoCall EXCEPT !.op = "delete_bom_item",
                              !.args = [bom_item_id |-> bom_item_id],
                              !.result = IF reply = "Yes" THEN "ok" ELSE "cancelled"]
    /\ UNCHANGED <<sqlite_sequence, employee, requests_tab>>

-----------------------------------------------------------------------------
(* database.py and admin_dashboard.py: sales *)

\* a read of the sales table that ignores the flag
get_sales_history_unfiltered(t, is_historical_csv) ==
    t.sales_history

\* SELECT * FROM sales_history WHERE is_historical_csv = ?
get_sales_history(t, is_historical_csv) ==
    {s \in t.sales_history : s.is_historical_csv = is_historical_csv}

\* the entries of the product combo box of the "Handle Sales" tab:
\* refresh_product_and_material_lists reads them from the sales table
product_list(t) ==
    IF t.sales_history = {} THEN {NoProductsAdminText}
    ELSE {s.product_name : s \in t.sales_history}

\* the outcome of add_sales_entry: one row flagged current
add_sales_entry(t, seq, product_name, year, month, quantity) ==
    [t |-> [t EXCEPT !.sales_history = @ \cup
               {[sales_id |-> seq.sales_history + 1, product_name |-> product_name,
                 year |-> year, month |-> month, quantity |-> quantity,
                 is_historical_csv |-> 0]}],
     seq |-> [seq EXCEPT !.sales_history = @ + 1]]

\* AdminDashboard.add_sales_data: the product of the combo box, the year and
\* month of the calendar's date, the quantity of the spin box
add_sales_data(product_name, year, month, quantity) ==
    LET call == [NoCall EXCEPT !.op = "add_sales_data",
                               !.product_name = product_name,
                               !.args = [year |-> year, month |-> month,
                                         quantity |-> quantity]]
        out == add_sales_entry(Tables, sqlite_sequence, product_name, year, month,
                               quantity)
    IN
    /\ product_name \in product_list(Tables)
    /\ UNCHANGED <<employee, requests_tab>>
    /\ IF product_name = NoProductsAdminText
       THEN /\ last' = [call EXCEPT !.result = "warning"]
            /\ UNCHANGED store
       ELSE /\ Cardinality(get_sales_history(Tables, 0)) < MaxSales
            /\ sqlite_sequence.sales_history < MaxSalesId
            /\ SetTables(out.t)
            /\ sqlite_sequence' = out.seq
            /\ last' = call

\* pd.to_numeric(text without commas, errors='coerce').fillna(0).astype(int):
\* the number a cell holds, 0 for an empty cell or one that is no number
ParseQuantity(cell) ==
    CASE cell = "1,200" -> 1200
      [] cell = "3" -> 3
      [] OTHER -> 0

\* ...['quantity'].sum() over the rows of a group
RECURSIVE SumQuantity(_)
SumQuantity(rows) ==
    IF rows = {} THEN 0
    ELSE LET r == CHOOSE r \in rows : TRUE
         IN  r.quantity + SumQuantity(rows \ {r})

\* df.melt: one row per row of the file and month column, quantity cleaned
Melted(df) ==
    {[index |-> i, product_name |-> df[i].Category, month |-> m,
      quantity |-> ParseQuantity(df[i].quantity[m])] :
        i \in DOMAIN df, m \in Months}

\* final_sales: the melted rows grouped by product, year and month, with the
\* quantities of a group summed and the historical flag set
FinalSales(df) ==
    {[product_name |-> p, year |-> HistoricalYear, month |-> m,
      quantity |-> SumQuantity({x \in Melted(df) :
                                  x.product_name = p /\ x.month = m}),
      is_historical_csv |-> 1] :
        p \in {df[i].Category : i \in DOMAIN df}, m \in Months}

\* groupby sorts its keys: the place of a group among the rows inserted
ProductOrder == <<"ShoeA", "Sneaker">>

GroupPosition(final_sales, row) ==
    LET Place(p) == CHOOSE i \in DOMAIN ProductOrder : ProductOrder[i] = p
        before == {p \in {x.product_name : x \in final_sales} :
                     Place(p) < Place(row.product_name)}
    IN  Cardinality(before) * Len(MonthNames) + row.month

\* an import that leaves the old historical rows in place
DeleteHistoricalMissing(rows) ==
    rows

\* DELETE FROM sales_history WHERE is_historical_csv = 1
DeleteHistorical(rows) ==
    {s \in rows : s.is_historical_csv # 1}

\* the tables after the first k statements of the transaction of
\* import_sales_from_csv: the DELETE, then the INSERTs of to_sql
SalesApplied(t, seq, final_sales, k) ==
    LET inserted == {[sales_id |-> seq.sales_history + GroupPosition(final_sales, row),
                      product_name |-> row.product_name, year |-> row.year,
                      month |-> row.month, quantity |-> row.quantity,
                      is_historical_csv |-> row.is_historical_csv] :
                        row \in final_sales}
    IN  IF k = 0 THEN [t |-> t, seq |-> seq]
        ELSE IF k = 1
        THEN [t |-> [t EXCEPT !.sales_history = DeleteHistorical(@)], seq |-> seq]
        ELSE [t |-> [t EXCEPT !.sales_history = DeleteHistorical(@) \cup inserted],
              seq |-> [seq EXCEPT !.sales_history = @ + Cardinality(final_sales)]]

\* the outcome of import_sales_from_csv on the frame read from the file
import_sales_from_csv(t, seq, df, fault) ==
    LET before == [t |-> t, seq |-> seq]
    IN  IF Raised(fault, 2)
        THEN [after |-> Rollback(before, SalesApplied(t, seq, FinalSales(df), fault)),
              raised |-> TRUE]
        ELSE [after |-> SalesApplied(t, seq, FinalSales(df), 2), raised |-> FALSE]

\* AdminDashboard.import_sales_csv on a chosen file
import_sales_csv(df, fault) ==
    LET out == import_sales_from_csv(Tables, sqlite_sequence, df, fault)
    IN
    /\ fault <= 3
    /\ sqlite_sequence.sales_history + Cardinality(FinalSales(df)) <= MaxSalesId
    /\ SetTables(out.after.t)
    /\ sqlite_sequence' = out.after.seq
    /\ last' = [NoCall EXCEPT !.op = "import_sales_csv",
                              !.args = [df |-> df],
                              !.fault = fault,
                              !.result = IF out.raised THEN "error" ELSE "ok"]
    /\ UNCHANGED <<employee, requests_tab>>

\* SELECT ... FROM bom b JOIN materials m ON b.material_id = m.material_id
get_full_bom(t) ==
    {[bom_id |-> p[1].bom_id, product_name |-> p[1].product_id,
      material_name |-> p[2].name, quantity_per_unit |-> p[1].quantity_per_unit,
      unit_of_measure |-> p[2].unit_of_measure] :
        p \in {p \in t.bom \X t.materials : p[1].material_id = p[2].material_id}}

\* "consumption[key] += total_mat_qty" over the BOM items of the products sold
RECURSIVE Accumulate(_, _)
Accumulate(items, product_sales) ==
    IF items = {} THEN 0
    ELSE LET item == CHOOSE item \in items : TRUE
         IN  item.quantity_per_unit * product_sales[item.product_name]
                 + Accumulate(items \ {item}, product_sales)

\* the dictionary built by generate_consumption_report: a total per
\* "material (unit)" key
Consumption(month_sales, bom_df) ==
    LET sold == {s.product_name : s \in month_sales}
        product_sales == [p \in sold |->
                             SumQuantity({s \in month_sales : s.product_name = p})]
        used == {item \in bom_df : item.product_name \in sold}
        keys == {<<item.material_name, item.unit_of_measure>> : item \in used}
    IN  [key \in keys |->
            Accumulate({item \in used :
                          <<item.material_name, item.unit_of_measure>> = key},
                       product_sales)]

\* AdminDashboard.generate_consumption_report for the year and month chosen
generate_consumption_report(year, month) ==
    LET call == [NoCall EXCEPT !.op = "generate_consumption_report",
                               !.args = [year |-> year, month |-> month]]
        sales_df == get_sales_history(Tables, 0)
        month_sales == {s \in sales_df : s.year = year /\ s.month = month}
        bom_df == get_full_bom(Tables)
        consumption == Consumption(month_sales, bom_df)
    IN
    /\ UNCHANGED <<store, employee, requests_tab>>
    /\ IF sales_df = {} \/ month_sales = {}
       THEN last' = [call EXCEPT !.result = "information"]
       ELSE IF bom_df = {}
       THEN last' = [call EXCEPT !.result = "warning"]
       ELSE IF DOMAIN consumption = {}
       THEN last' = [call EXCEPT !.result = "information"]
       ELSE last' = [call EXCEPT !.consumption = consumption]

-----------------------------------------------------------------------------
(* admin_dashboard.py: the "Material Requests" tab.  requests_tab holds the *)
(* rows of requests_table as they are displayed (request id and status),    *)
(* the selected row (0: none) and the four buttons.                         *)

\* the tab as create_requests_tab builds it
NewRequestsTab ==
    [requests_table |-> <<>>, selection |-> 0,
     approve_button |-> FALSE, reject_button |-> FALSE,
     receive_stock_button |-> FALSE, delete_request_button |-> FALSE]

\* SELECT * FROM material_requests ORDER BY request_date DESC: the later
\* request, which has the larger id, comes first
get_all_material_requests(t) ==
    CHOOSE requests \in Orderings(t.material_requests) :
        \A i, j \in DOMAIN requests :
            i < j => requests[i].request_id > requests[j].request_id

clear_request_details(tab) ==
    [tab EXCEPT !.approve_button = FALSE, !.reject_button = FALSE,
                !.receive_stock_button = FALSE, !.delete_request_button = FALSE]

\* the tab after load_material_requests on the tables t: the rows are set
\* again, a selected row that still exists stays selected, and the details
\* are cleared
LoadedRequestsTab(tab, t) ==
    LET requests == get_all_material_requests(t)
        rows == [row \in DOMAIN requests |->
                    [request_id |-> requests[row].request_id,
                     status |-> requests[row].status]]
    IN  clear_request_details(
            [tab EXCEPT !.requests_table = rows,
                        !.selection = IF @ <= Len(rows) THEN @ ELSE 0])

\* buttons that do not look at the status
StatusButtonsAllEnabled(tab, status) ==
    [tab EXCEPT !.approve_button = TRUE, !.reject_button = TRUE,
                !.receive_stock_button = TRUE, !.delete_request_button = TRUE]

\* "Enable buttons based on status"
StatusButtons(tab, status) ==
    [tab EXCEPT !.approve_button = (status = "Pending"),
                !.reject_button = (status = "Pending"),
                !.receive_stock_button = (status = "Approved"),
                !.delete_request_button = TRUE]

\* the "Refresh List" button, and the tab being opened
load_material_requests ==
    /\ requests_tab' = LoadedRequestsTab(requests_tab, Tables)
    /\ last' = [NoCall EXCEPT !.op = "load_material_requests"]
    /\ UNCHANGED <<store, employee>>

\* the selection changes to row (0: the selection is cleared)
on_request_selected(row) ==
    /\ row \in 0..Len(requests_tab.requests_table)
    /\ row # requests_tab.selection
    /\ IF row = 0
       THEN /\ requests_tab' = clear_request_details([requests_tab EXCEPT !.selection = 0])
            /\ last' = [NoCall EXCEPT !.op = "on_request_selected"]
       ELSE LET request_id == requests_tab.requests_table[row].request_id
                status == requests_tab.requests_table[row].status
            IN  /\ requests_tab' =
                       StatusButtons([requests_tab EXCEPT !.selection = row], status)
                /\ last' = [NoCall EXCEPT !.op = "on_request_selected",
                                          !.request_id = request_id]
    /\ UNCHANGED <<store, employee>>

\* the "Approve Request" and "Reject Request" buttons
AdminDashboard_update_request_status(new_status) ==
    /\ IF new_status = "Approved"
       THEN requests_tab.approve_button ELSE requests_tab.reject_button
    /\ IF requests_tab.selection = 0
       THEN /\ last' = [NoCall EXCEPT !.op = "update_request_status",
                                      !.new_status = new_status,
                                      !.result = "warning"]
            /\ UNCHANGED <<store, employee, requests_tab>>
       ELSE LET request_id ==
                    requests_tab.requests_table[requests_tab.selection].request_id
            IN  /\ update_request_status(request_id, new_status)
                /\ requests_tab' = LoadedRequestsTab(requests_tab,
                       [Tables EXCEPT !.material_requests = material_requests'])

\* the "Delete Request" button; reply is the answer to the confirmation
AdminDashboard_delete_request(reply) ==
    /\ requests_tab.delete_request_button
    /\ IF requests_tab.selection = 0
       THEN /\ reply = "No"
            /\ last' = [NoCall EXCEPT !.op = "delete_material_request",
                                      !.result = "warning"]
            /\ UNCHANGED <<store, employee, requests_tab>>
       ELSE LET request_id ==
                    requests_tab.requests_table[requests_tab.selection].request_id
            IN  IF reply = "No"
                THEN /\ last' = [NoCall EXCEPT !.op = "delete_material_request",
                                               !.request_id = request_id,
                                               !.result = "cancelled"]
                     /\ UNCHANGED <<store, employee, requests_tab>>
                ELSE /\ delete_material_request(request_id)
                     /\ requests_tab' = LoadedRequestsTab(requests_tab,
                            [Tables EXCEPT !.material_requests = material_requests'])

\* the "Receive Stock & Complete" button; the list is loaded again only when
\* the database call returned
receive_stock_and_complete(reply, fault) ==
    /\ requests_tab.receive_stock_button
    /\ IF requests_tab.selection = 0
       THEN /\ reply = "No" /\ fault = 0
            /\ last' = [NoCall EXCEPT !.op = "receive_material_request_stock",
                                      !.result = "warning"]
            /\ UNCHANGED <<store, employee, requests_tab>>
       ELSE LET request_id ==
                    requests_tab.requests_table[requests_tab.selection].request_id
            IN  IF reply = "No"
                THEN /\ fault = 0
                     /\ last' = [NoCall EXCEPT !.op = "receive_material_request_stock",
                                               !.request_id = request_id,
                                               !.result = "cancelled"]
                     /\ UNCHANGED <<store, employee, requests_tab>>
                ELSE /\ receive_material_request_stock(request_id, fault)
                     /\ requests_tab' =
                            IF last'.result = "ok"
                            THEN LoadedRequestsTab(requests_tab,
                                     [Tables EXCEPT !.material_requests = material_requests'])
                            ELSE requests_tab

-----------------------------------------------------------------------------
(* The store as the admin has set it up: two materials, the BOM of ShoeA *)

SetUpMaterials ==
    {[material_id |-> 1, name |-> "Leather", stock |-> 3, price |-> 5,
      product_association |-> "P.E.", unit_of_measure |-> "sqft"],
     [material_id |-> 2, name |-> "Rubber", stock |-> 2, price |-> 2,
      product_association |-> "P.E.", unit_of_measure |-> "pcs"]}

SetUpBom ==
    {[bom_id |-> 1, product_id |-> "ShoeA", material_id |-> 1, quantity_per_unit |-> 2],
     [bom_id |-> 2, product_id |-> "ShoeA", material_id |-> 2, quantity_per_unit |-> 1]}

SetUpTables ==
    [materials |-> SetUpMaterials, bom |-> SetUpBom,
     material_requests |-> {}, request_line_items |-> {}, sales_history |-> {}]

SetUpSequence ==
    [materials |-> 2, bom |-> 2, material_requests |-> 0, request_line_items |-> 0,
     sales_history |-> 0]

\* a new EmployeeDashboard: empty caches, the combo box on the first product
\* (the spin box, which the program starts at 100, starts at its minimum)
NewEmployeeDashboard ==
    /\ cost_product_combo = "ShoeA"
    /\ cost_quantity_spinbox = SpinMinimum
    /\ cost_table = <<>>
    /\ current_line_items = <<>>
    /\ current_total_cost = 0
    /\ submit_request_button = FALSE

-----------------------------------------------------------------------------
(* Spec: the employee dashboard on the set-up store *)

Init ==
    /\ materials = SetUpTables.materials
    /\ bom = SetUpTables.bom
    /\ material_requests = SetUpTables.material_requests
    /\ request_line_items = SetUpTables.request_line_items
    /\ sales_history = SetUpTables.sales_history
    /\ sqlite_sequence = SetUpSequence
    /\ NewEmployeeDashboard
    /\ requests_tab = NewRequestsTab
    /\ last = NoCall

Next ==
    \/ \E p \in Products : SelectProduct(p)
    \/ \E q \in Quantities : SetQuantity(q)
    \/ load_materials_data
    \/ calculate_material_cost
    \/ \E reply \in {"Yes", "No"}, fault \in FaultPoints :
           EmployeeDashboard_submit_material_request(reply, fault)

Spec == Init /\ [][Next]_vars

-----------------------------------------------------------------------------
(* SpecLifecycle: the lifecycle operations on a submitted request *)

\* the store after the employee calculated and submitted ShoeA for some
\* number of pairs
InitLifecycle ==
    /\ \E q \in Quantities :
       \E bom_items \in Orderings(get_bom_for_product(SetUpTables, "ShoeA")) :
          LET breakdown == CostBreakdown(bom_items, q)
              out == submit_material_request(SetUpTables, SetUpSequence, "ShoeA", q,
                         breakdown.total_cost, breakdown.line_items, MaxFault)
          IN  /\ materials = out.after.t.materials
              /\ bom = out.after.t.bom
              /\ material_requests = out.after.t.material_requests
              /\ request_line_items = out.after.t.request_line_items
              /\ sales_history = out.after.t.sales_history
              /\ sqlite_sequence = out.after.seq
    /\ NewEmployeeDashboard
    /\ requests_tab = NewRequestsTab
    /\ last = NoCall

\* the operations of database.py are called directly: no tab is there to change
NextLifecycle ==
    \/ \E request_id \in RequestIds, new_status \in Statuses :
           update_request_status(request_id, new_status) /\ UNCHANGED requests_tab
    \/ \E request_id \in RequestIds :
           delete_material_request(request_id) /\ UNCHANGED requests_tab
    \/ \E request_id \in RequestIds, fault \in FaultPoints :
           receive_material_request_stock(request_id, fault) /\ UNCHANGED requests_tab
    \/ \E mat_id \in 1..2, name \in MaterialNames : update_material(mat_id, name)

SpecLifecycle == InitLifecycle /\ [][NextLifecycle]_vars

-----------------------------------------------------------------------------
(* SpecCosting: the cost calculator over stores with any stock levels *)

StockLevels == 0..MaxStock

\* a second product whose BOM has a single entry
SneakerBom ==
    {[bom_id |-> 3, product_id |-> "Sneaker", material_id |-> 2, quantity_per_unit |-> 3]}

InitCosting ==
    /\ \E leather, rubber \in StockLevels :
          materials = {IF m.material_id = 1 THEN [m EXCEPT !.stock = leather]
                                            ELSE [m EXCEPT !.stock = rubber] :
                          m \in SetUpMaterials}
    /\ bom \in {SetUpBom, SetUpBom \cup SneakerBom}
    /\ material_requests = {}
    /\ request_line_items = {}
    /\ sales_history = {}
    /\ sqlite_sequence = [SetUpSequence EXCEPT !.bom = Cardinality(bom)]
    /\ NewEmployeeDashboard
    /\ requests_tab = NewRequestsTab
    /\ last = NoCall

NextCosting ==
    \/ \E p \in Products : SelectProduct(p)
    \/ \E q \in Quantities : SetQuantity(q)
    \/ load_materials_data
    \/ calculate_material_cost

SpecCosting == InitCosting /\ [][NextCosting]_vars

-----------------------------------------------------------------------------
(* SpecMaterials: the admin adds, edits and deletes materials; the BOM of   *)
(* ShoeA references Leather and Rubber                                      *)

InitMaterials ==
    Init

NextMaterials ==
    \/ \E material_id \in 0..MaxMaterialId, name \in MaterialNames \cup {""},
          stock \in FormStocks :
           save_material(material_id, name, stock)
    \/ \E material_id \in 1..MaxMaterialId, reply \in {"Yes", "No"} :
           AdminDashboard_delete_material(material_id, reply)

SpecMaterials == InitMaterials /\ [][NextMaterials]_vars

-----------------------------------------------------------------------------
(* SpecImport: the admin imports materials CSV files into the set-up store *)

CsvNames == {"Rubber", "Suede"}

\* the cells of a row besides the name: one row with a negative stock
CsvValues ==
    {[stock |-> -1, price |-> 4, product_association |-> "P.E.",
      unit_of_measure |-> "kg"],
     [stock |-> 1, price |-> 6, product_association |-> "Slip-on",
      unit_of_measure |-> "meters"]}

CsvRows ==
    {[name |-> n, stock |-> v.stock, price |-> v.price,
      product_association |-> v.product_association,
      unit_of_measure |-> v.unit_of_measure] : n \in CsvNames, v \in CsvValues}

CsvFiles == UNION {[1..n -> CsvRows] : n \in 0..MaxCsvRows}

InitImport ==
    Init

NextImport ==
    \E rows \in CsvFiles, fault \in FaultPoints : import_materials_csv(rows, fault)

SpecImport == InitImport /\ [][NextImport]_vars

-----------------------------------------------------------------------------
(* SpecBom: the admin edits the bill of materials of the set-up store *)

InitBom ==
    Init

NextBom ==
    \/ \E product_name \in Products, material_name \in MaterialNames,
          quantity \in BomQuantities :
           save_bom_item(product_name, material_name, quantity)
    \/ \E bom_item_id \in 1..MaxBomId, reply \in {"Yes", "No"} :
           AdminDashboard_delete_bom_item(bom_item_id, reply)

SpecBom == InitBom /\ [][NextBom]_vars

-----------------------------------------------------------------------------
(* SpecSales: the admin imports historical sales and enters current sales *)

\* a row of the sales file: a category, a cell in the January column and
\* empty cells in the other month columns
SalesCsvRow(category, january) ==
    [Category |-> category,
     quantity |-> [m \in Months |-> IF m = 1 THEN january ELSE ""]]

SalesCsvRows == {SalesCsvRow("ShoeA", "1,200"), SalesCsvRow("Sneaker", "3")}

SalesCsvFiles == UNION {[1..n -> SalesCsvRows] : n \in 0..MaxCsvRows}

InitSales ==
    Init

NextSales ==
    \/ \E df \in SalesCsvFiles, fault \in FaultPoints : import_sales_csv(df, fault)
    \/ \E product_name \in Products \cup {NoProductsAdminText} :
           add_sales_data(product_name, HistoricalYear, 1, 1)

SpecSales == InitSales /\ [][NextSales]_vars

-----------------------------------------------------------------------------
(* SpecReport: current sales and consumption reports on a store that holds *)
(* the BOMs of both products and imported historical sales                 *)

\* the quantity spin box of the "Handle Sales" tab starts at 1
SalesQuantities == {1, MaxQuantity}

ReportYears == {HistoricalYear, HistoricalYear + 1}

ReportMonths == {1, 2}

InitReport ==
    /\ LET t == [SetUpTables EXCEPT !.bom = SetUpBom \cup SneakerBom]
           seq == [SetUpSequence EXCEPT !.bom = 3]
           out == import_sales_from_csv(t, seq,
                      <<SalesCsvRow("ShoeA", "1,200"), SalesCsvRow("Sneaker", "3")>>,
                      MaxFault)
       IN  /\ materials = out.after.t.materials
           /\ bom = out.after.t.bom
           /\ material_requests = out.after.t.material_requests
           /\ request_line_items = out.after.t.request_line_items
           /\ sales_history = out.after.t.sales_history
           /\ sqlite_sequence = out.after.seq
    /\ NewEmployeeDashboard
    /\ requests_tab = NewRequestsTab
    /\ last = NoCall

NextReport ==
    \/ \E product_name \in Products, month \in ReportMonths,
          quantity \in SalesQuantities :
           add_sales_data(product_name, HistoricalYear, month, quantity)
    \/ \E year \in ReportYears, month \in ReportMonths :
           generate_consumption_report(year, month)

SpecReport == InitReport /\ [][NextReport]_vars

-----------------------------------------------------------------------------
(* SpecTwoRequests: approval and receipt on a store that holds two requests *)
(* whose costing read the same stock                                        *)

\* the store after ShoeA was calculated twice on the set-up stock, for some
\* numbers of pairs, and both results were submitted
InitTwoRequests ==
    /\ \E q1, q2 \in Quantities :
       \E bom1, bom2 \in Orderings(get_bom_for_product(SetUpTables, "ShoeA")) :
          LET breakdown1 == CostBreakdown(bom1, q1)
              breakdown2 == CostBreakdown(bom2, q2)
              out1 == submit_material_request(SetUpTables, SetUpSequence, "ShoeA", q1,
                          breakdown1.total_cost, breakdown1.line_items, MaxFault)
              out2 == submit_material_request(out1.after.t, out1.after.seq, "ShoeA", q2,
                          breakdown2.total_cost, breakdown2.line_items, MaxFault)
          IN  /\ materials = out2.after.t.materials
              /\ bom = out2.after.t.bom
              /\ material_requests = out2.after.t.material_requests
              /\ request_line_items = out2.after.t.request_line_items
              /\ sales_history = out2.after.t.sales_history
              /\ sqlite_sequence = out2.after.seq
    /\ NewEmployeeDashboard
    /\ requests_tab = NewRequestsTab
    /\ last = NoCall

NextTwoRequests ==
    \/ \E request_id \in RequestIds, new_status \in Statuses :
           update_request_status(request_id, new_status) /\ UNCHANGED requests_tab
    \/ \E request_id \in RequestIds, fault \in FaultPoints :
           receive_material_request_stock(request_id, fault) /\ UNCHANGED requests_tab

SpecTwoRequests == InitTwoRequests /\ [][NextTwoRequests]_vars

-----------------------------------------------------------------------------
(* SpecAdmin: one session of the admin's "Material Requests" tab on a store *)
(* that holds two submitted requests                                        *)

InitAdmin ==
    InitTwoRequests

NextAdmin ==
    \/ load_material_requests
    \/ \E row \in 0..(MaxRequests + 1) : on_request_selected(row)
    \/ \E new_status \in {"Approved", "Rejected"} :
           AdminDashboard_update_request_status(new_status)
    \/ \E reply \in {"Yes", "No"} : AdminDashboard_delete_request(reply)
    \/ \E reply \in {"Yes", "No"}, fault \in FaultPoints :
           receive_stock_and_complete(reply, fault)

SpecAdmin == InitAdmin /\ [][NextAdmin]_vars

-----------------------------------------------------------------------------
(* Properties *)

HeaderOf(requests, request_id) == {r \in requests : r.request_id = request_id}

RECURSIVE SumOver(_, _)
SumOver(S, f) ==
    IF S = {} THEN 0
    ELSE LET x == CHOOSE x \in S : TRUE IN f[x] + SumOver(S \ {x}, f)

\* C1: update_request_status changes a request's status only when the new
\* status is Approved or Rejected and the current status is Pending; in every
\* other case the stored status stays as it was.
C1_SetStatusOnlyFromPending ==
    [][last'.op = "update_request_status" =>
         \A r \in material_requests : \A r2 \in material_requests' :
             (r2.request_id = r.request_id /\ r2.status # r.status) =>
                 (last'.new_status \in {"Approved", "Rejected"} /\ r.status = "Pending")]_vars

\* C2: Rejected and Completed are terminal: no update_request_status or
\* receive_material_request_stock call changes the status of a request that
\* is Rejected or Completed.
C2_TerminalStatuses ==
    [][last'.op \in {"update_request_status", "receive_material_request_stock"} =>
         \A r \in material_requests : \A r2 \in material_requests' :
             (r2.request_id = r.request_id /\ r.status \in {"Rejected", "Completed"}) =>
                 r2.status = r.status]_vars

\* C3: receive_material_request_stock called on a request whose status is
\* not Approved (Pending, Rejected or Completed) changes no stock and no
\* status.
C3_ReceiveOnlyWhenApproved ==
    [][(/\ last'.op = "receive_material_request_stock"
        /\ \E r \in material_requests :
               r.request_id = last'.request_id /\ r.status # "Approved") =>
         (materials' = materials /\ material_requests' = material_requests)]_vars

\* C4: after delete_material_request(id) returns, the header and every line
\* item of that request are gone from the store.
C4_DeleteCascades ==
    last.op = "delete_material_request" =>
        /\ HeaderOf(material_requests, last.request_id) = {}
        /\ get_request_line_items(Tables, last.request_id) = {}

\* C5: after a successful receive_material_request_stock on a request of
\* the store, every line item's material has gained exactly quantity_needed, every other material's stock
\* is unchanged, and the request is Completed.
C5_ReceiveAddsEveryLineItem ==
    [][(/\ last'.op = "receive_material_request_stock"
        /\ last'.result = "ok"
        /\ HeaderOf(material_requests, last'.request_id) # {}) =>
         LET items == get_request_line_items(Tables, last'.request_id)
         IN  /\ \A i \in items :
                   \E m \in materials : \E m2 \in materials' :
                       /\ m.name = i.material_name
                       /\ m2.material_id = m.material_id
                       /\ m2.stock = m.stock + i.quantity_needed
             /\ \A m \in materials :
                   (\A i \in items : i.material_name # m.name) => m \in materials'
             /\ \E r \in material_requests' :
                   r.request_id = last'.request_id /\ r.status = "Completed"]_vars

\* C6: receive_material_request_stock is all-or-nothing: a call that fails
\* leaves every stock and every status as it was, and a call on a request
\* without line items fails.
C6_ReceiveAllOrNothing ==
    [][last'.op = "receive_material_request_stock" =>
         /\ last'.result = "error" =>
                (materials' = materials /\ material_requests' = material_requests)
         /\ get_request_line_items(Tables, last'.request_id) = {} =>
                last'.result = "error"]_vars

\* a receive that failed after at least one stock UPDATE had been executed
C6_Witness ==
    /\ last.op = "receive_material_request_stock"
    /\ last.result = "error"
    /\ last.fault >= 1
    /\ Cardinality(get_request_line_items(Tables, last.request_id)) = 2

\* C7: receive_material_request_stock on a request id without a header
\* (never created, or deleted) fails and changes no material's stock.
C7_ReceiveWithoutHeaderFails ==
    [][(/\ last'.op = "receive_material_request_stock"
        /\ HeaderOf(material_requests, last'.request_id) = {}) =>
         (last'.result = "error" /\ materials' = materials)]_vars

\* C8: a successful submit of a costing result with N line items of
\* quantity_needed > 0 persists exactly one new header, Pending, and exactly
\* those N line items; no line item of quantity_needed = 0 is ever persisted.
C8_SubmitPersistsPositiveItems ==
    [][(last'.op = "submit" /\ last'.result = "ok") =>
         LET given == last'.line_items
             positive == {i \in DOMAIN given : given[i].quantity_needed > 0}
             headers == material_requests' \ material_requests
             rows == request_line_items' \ request_line_items
         IN  /\ material_requests \subseteq material_requests'
             /\ request_line_items \subseteq request_line_items'
             /\ Cardinality(headers) = 1
             /\ \A h \in headers :
                   h.request_id = last'.request_id /\ h.status = "Pending"
             /\ Cardinality(rows) = Cardinality(positive)
             /\ \A i \in positive : \E row \in rows :
                   /\ row.request_id = last'.request_id
                   /\ row.material_name = given[i].material_name
                   /\ row.quantity_needed = given[i].quantity_needed
                   /\ row.cost = given[i].cost
             /\ \A row \in request_line_items' : row.quantity_needed > 0]_vars

\* a submitted costing result with a zero-shortfall item and an item to order
C8_Witness ==
    /\ last.op = "submit"
    /\ last.result = "ok"
    /\ \E i, j \in DOMAIN last.line_items :
           /\ last.line_items[i].quantity_needed = 0
           /\ last.line_items[j].quantity_needed > 0
    /\ Cardinality(get_request_line_items(Tables, last.request_id)) = 1

\* C9: submit is atomic: when it fails, after the header insert or part-way
\* through the line items, the store holds neither the header nor any line
\* item of the submission, and the caller gets the error.
C9_SubmitAtomic ==
    [][(last'.op = "submit" /\ last'.result \notin {"warning", "cancelled"}) =>
         LET raised == last'.fault <= 1 + Len(ItemsToInsert(last'.line_items))
         IN  /\ raised <=> last'.result = "error"
             /\ raised =>
                   /\ material_requests' = material_requests
                   /\ request_line_items' = request_line_items
                   /\ sqlite_sequence' = sqlite_sequence]_vars

\* a submit that failed after the header and the first of two line items
C9_Witness ==
    /\ last.op = "submit"
    /\ last.result = "error"
    /\ last.fault = 2
    /\ Len(ItemsToInsert(last.line_items)) = 2

\* C10: for a product with at least one BOM entry the calculation succeeds
\* and holds, for each BOM entry, total_required = quantity * per-unit,
\* need_to_order = max(0, total_required - stock) and cost = need_to_order *
\* price; the total cost is the sum of the costs.
C10_CostingFormulas ==
    last.op = "calculate" =>
        LET entries == {b \in bom : b.product_id = last.product_name}
        IN  /\ entries # {} => last.result = "ok"
            /\ last.result = "ok" =>
                 /\ \A b \in entries : \E m \in materials : \E i \in DOMAIN cost_table :
                       LET required == last.production_quantity * b.quantity_per_unit
                           shortfall == IF required > m.stock THEN required - m.stock ELSE 0
                       IN  /\ m.material_id = b.material_id
                           /\ cost_table[i].material = m.name
                           /\ cost_table[i].total_required = required
                           /\ cost_table[i].need_to_order = shortfall
                           /\ cost_table[i].cost = shortfall * m.price
                           /\ current_line_items[i].material_name = m.name
                           /\ current_line_items[i].quantity_needed = shortfall
                           /\ current_line_items[i].cost = shortfall * m.price
                 /\ current_total_cost =
                        SumOver(DOMAIN cost_table,
                                [i \in DOMAIN cost_table |-> cost_table[i].cost])

\* a calculation with one material covered by stock and one to order
C10_Witness ==
    /\ last.op = "calculate"
    /\ last.result = "ok"
    /\ \E i, j \in DOMAIN cost_table :
           /\ cost_table[i].need_to_order = 0
           /\ cost_table[i].in_stock > cost_table[i].total_required
           /\ cost_table[j].need_to_order > 0
    /\ current_total_cost > 0

\* C11: a successful calculation lists exactly one entry per BOM entry of the
\* product, in the table and in the cache; a material whose stock covers its
\* total requirement is listed too, with need_to_order = 0 and cost = 0.
C11_OneEntryPerBomEntry ==
    (last.op = "calculate" /\ last.result = "ok") =>
        LET entries == {b \in bom : b.product_id = last.product_name}
        IN  /\ Len(cost_table) = Cardinality(entries)
            /\ Len(current_line_items) = Cardinality(entries)
            /\ \A b \in entries : \E m \in materials :
                   /\ m.material_id = b.material_id
                   /\ Cardinality({i \in DOMAIN cost_table :
                                      cost_table[i].material = m.name}) = 1
                   /\ Cardinality({i \in DOMAIN current_line_items :
                                      current_line_items[i].material_name = m.name}) = 1
            /\ \A i \in DOMAIN cost_table :
                   cost_table[i].in_stock >= cost_table[i].total_required =>
                       /\ cost_table[i].need_to_order = 0
                       /\ cost_table[i].cost = 0
                       /\ current_line_items[i].material_name = cost_table[i].material
                       /\ current_line_items[i].quantity_needed = 0
                       /\ current_line_items[i].cost = 0

\* a calculation in which the stock covers every material of a two-entry BOM
C11_Witness ==
    /\ last.op = "calculate"
    /\ last.result = "ok"
    /\ Len(cost_table) = 2
    /\ \A i \in DOMAIN cost_table :
           cost_table[i].in_stock >= cost_table[i].total_required
    /\ current_total_cost = 0

\* C12: calculating for a product without BOM entries reports an error and
\* leaves no table rows, no cached line items, no total and the submit button
\* disabled; the button is enabled only by a successful calculation, and a
\* submit while it is disabled is refused and writes nothing.
C12_NoBomNoResult ==
    [][/\ (/\ last'.op = "calculate"
            /\ {b \in bom : b.product_id = last'.product_name} = {}) =>
               /\ last'.result = "error"
               /\ cost_table' = <<>>
               /\ current_line_items' = <<>>
               /\ current_total_cost' = 0
               /\ ~submit_request_button'
       /\ (~submit_request_button /\ submit_request_button') =>
               (last'.op = "calculate" /\ last'.result = "ok")
       /\ (last'.op = "submit" /\ ~submit_request_button) =>
               /\ last'.result = "warning"
               /\ material_requests' = material_requests
               /\ request_line_items' = request_line_items]_vars

\* a calculation for Sneaker, which has no BOM, has reported the error
C12_Witness ==
    /\ last.op = "calculate"
    /\ last.result = "error"
    /\ last.product_name = "Sneaker"
    /\ {b \in bom : b.product_id = "Sneaker"} = {}
    /\ ~submit_request_button
    /\ current_line_items = <<>>

\* C13: deleting a material that a BOM entry references fails with an
\* integrity error and leaves materials and bom unchanged; deleting a material
\* that no BOM entry references succeeds and removes exactly that material.
C13_ReferentialDeleteGuard ==
    [][(last'.op = "delete_material" /\ last'.result # "cancelled") =>
         LET mat_id == last'.args.material_id
             referenced == \E b \in bom : b.material_id = mat_id
         IN  /\ bom' = bom
             /\ referenced => (last'.result = "error" /\ materials' = materials)
             /\ ~referenced =>
                    /\ last'.result = "ok"
                    /\ materials' = {m \in materials : m.material_id # mat_id}
                    /\ materials' # materials]_vars

\* an unreferenced material has been deleted while the referenced ones stay
C13_Witness ==
    /\ last.op = "delete_material"
    /\ last.result = "ok"
    /\ last.args.material_id > 2
    /\ \A m \in materials : m.material_id # last.args.material_id
    /\ \A b \in bom : \E m \in materials : m.material_id = b.material_id

\* C14: in every reachable state every material's stock is >= 0.
C14_StockNeverNegative ==
    \A m \in materials : m.stock >= 0

\* C15: the materials CSV import is all-or-nothing: an import that fails on
\* some row leaves the materials table as it was before the import.
C15_ImportAllOrNothing ==
    [][(last'.op = "import_materials_csv" /\ last'.result = "error") =>
         materials' = materials]_vars

C17_NamesUnique ==
    [][/\ \A m1, m2 \in materials' : m1.name = m2.name => m1 = m2
       /\ (last'.op = "save_material" /\ last'.result # "warning") =>
              LET taken == \E m \in materials :
                              /\ m.name = last'.args.name
                              /\ m.material_id # last'.args.material_id
              IN  /\ taken <=> last'.result = "error"
                  /\ taken => /\ materials' = materials
                              /\ bom' = bom
                              /\ sqlite_sequence' = sqlite_sequence]_vars

\* a rename to the name of another material has been refused
C17_Witness ==
    /\ last.op = "save_material"
    /\ last.result = "error"
    /\ last.args.material_id # 0
    /\ \E m1, m2 \in materials :
           /\ m1.material_id = last.args.material_id
           /\ m2.material_id # last.args.material_id
           /\ m2.name = last.args.name
           /\ m1.name # last.args.name

\* C18: the BOM holds at most one entry per (product, material) pair in
\* every reachable state; saving an existing pair replaces only its
\* quantity_per_unit, saving a new pair adds one entry, and saving with a
\* material name that no material has fails without changing the BOM.
C18_BomPairUnique ==
    [][/\ \A b1, b2 \in bom' :
             (b1.product_id = b2.product_id /\ b1.material_id = b2.material_id) =>
                 b1 = b2
       /\ last'.op = "save_bom_item" =>
             LET named == {m \in materials : m.name = last'.args.material_name}
                 Pair(b) == /\ b.product_id = last'.product_name
                            /\ \E m \in named : m.material_id = b.material_id
             IN  /\ named = {} <=> last'.result = "error"
                 /\ named = {} => bom' = bom
                 /\ named # {} =>
                       /\ {b \in bom' : ~Pair(b)} = {b \in bom : ~Pair(b)}
                       /\ Cardinality({b \in bom' : Pair(b)}) = 1
                       /\ \A b \in bom' : Pair(b) =>
                              /\ b.quantity_per_unit = last'.args.quantity
                              /\ \A old \in bom : Pair(old) => old.bom_id = b.bom_id]_vars

\* an existing pair has been saved again with another quantity
C18_Witness ==
    /\ last.op = "save_bom_item"
    /\ last.result = "ok"
    /\ last.product_name = "ShoeA"
    /\ last.args.material_name = "Leather"
    /\ \E b \in bom :
           /\ b.bom_id = 1
           /\ b.product_id = "ShoeA"
           /\ b.quantity_per_unit = last.args.quantity
           /\ b.quantity_per_unit # 2
    /\ sqlite_sequence.bom > Cardinality(bom)

\* C19: a successful import of historical sales leaves, flagged historical,
\* exactly one record per category of the file and month, holding the sum of
\* the file's quantities for them, and nothing else; every current record is
\* unchanged; a failed import changes nothing; add_sales_data only appends
\* one record, flagged current.
C19_HistoricalReplaced ==
    [][/\ (last'.op = "import_sales_csv" /\ last'.result = "ok") =>
             LET df == last'.args.df
                 categories == {df[i].Category : i \in DOMAIN df}
                 historical == {s \in sales_history' : s.is_historical_csv = 1}
                 Imported(p, m) ==
                     SumOver({i \in DOMAIN df : df[i].Category = p},
                             [i \in DOMAIN df |-> ParseQuantity(df[i].quantity[m])])
             IN  /\ \A s \in historical :
                       /\ s.product_name \in categories
                       /\ s.year = HistoricalYear
                       /\ s.month \in Months
                       /\ s.quantity = Imported(s.product_name, s.month)
                 /\ \A p \in categories, m \in Months :
                       Cardinality({s \in historical :
                                       s.product_name = p /\ s.month = m}) = 1
                 /\ {s \in sales_history' : s.is_historical_csv = 0}
                        = {s \in sales_history : s.is_historical_csv = 0}
       /\ (last'.op = "import_sales_csv" /\ last'.result = "error") =>
             sales_history' = sales_history
       /\ (last'.op = "add_sales_data" /\ last'.result = "ok") =>
             /\ sales_history \subseteq sales_history'
             /\ Cardinality(sales_history' \ sales_history) = 1
             /\ \A s \in sales_history' \ sales_history :
                   /\ s.is_historical_csv = 0
                   /\ s.product_name = last'.product_name
                   /\ s.year = last'.args.year
                   /\ s.month = last'.args.month
                   /\ s.quantity = last'.args.quantity]_vars

\* a second import has replaced the historical records of a first one, with
\* a current record entered between the two still in the table
C19_Witness ==
    /\ last.op = "import_sales_csv"
    /\ last.result = "ok"
    /\ Len(last.args.df) = 2
    /\ last.args.df[1].Category = last.args.df[2].Category
    /\ \E c \in sales_history :
           /\ c.is_historical_csv = 0
           /\ \E h \in sales_history : h.is_historical_csv = 1
           /\ \A h \in sales_history :
                  h.is_historical_csv = 1 => h.sales_id > c.sales_id

\* C20: the consumption report of a year and month lists the materials used
\* by the BOMs of the products with current sales in that period, each with
\* the sum over products of (current quantity sold in the period) *
\* (quantity_per_unit); historical sales and other periods do not count, and
\* the report changes no table.
C20_ConsumptionReport ==
    [][last'.op = "generate_consumption_report" =>
         LET period == {s \in sales_history :
                          /\ s.is_historical_csv = 0
                          /\ s.year = last'.args.year
                          /\ s.month = last'.args.month}
             Sold(p) == SumOver({s \in period : s.product_name = p},
                                [s \in period |-> s.quantity])
             Uses(m) == {b \in bom : /\ b.material_id = m.material_id
                                      /\ \E s \in period : s.product_name = b.product_id}
             Total(m) == SumOver(Uses(m),
                                 [b \in bom |-> b.quantity_per_unit * Sold(b.product_id)])
             listed == {m \in materials : Uses(m) # {}}
         IN  /\ materials' = materials
             /\ bom' = bom
             /\ sales_history' = sales_history
             /\ material_requests' = material_requests
             /\ request_line_items' = request_line_items
             /\ last'.result = "ok" <=> listed # {}
             /\ last'.result = "ok" =>
                   /\ DOMAIN last'.consumption =
                          {<<m.name, m.unit_of_measure>> : m \in listed}
                   /\ \A m \in listed :
                          last'.consumption[<<m.name, m.unit_of_measure>>] = Total(m)]_vars

\* a report of a period in which both products were sold, with a current
\* sale in another month and historical sales in the period itself
C20_Witness ==
    /\ last.op = "generate_consumption_report"
    /\ last.result = "ok"
    /\ \A p \in Products : \E s \in sales_history :
           /\ s.is_historical_csv = 0
           /\ s.product_name = p
           /\ s.year = last.args.year
           /\ s.month = last.args.month
    /\ \E s \in sales_history :
           s.is_historical_csv = 0 /\ s.month # last.args.month
    /\ \E s \in sales_history :
           /\ s.is_historical_csv = 1
           /\ s.year = last.args.year
           /\ s.month = last.args.month
           /\ s.quantity > 0
    /\ Cardinality(DOMAIN last.consumption) = 2

\* C21: costing is idempotent and pure: a costing call changes no material,
\* BOM or request row, and a call that follows a call for the same product
\* and quantity, with nothing done in between, ends as that one did, with the
\* same line items and the same total cost.
C21_CostingIdempotentAndPure ==
    [][last'.op = "calculate" =>
         /\ materials' = materials
         /\ bom' = bom
         /\ material_requests' = material_requests
         /\ request_line_items' = request_line_items
         /\ (/\ last.op = "calculate"
             /\ last.product_name = last'.product_name
             /\ last.production_quantity = last'.production_quantity) =>
                /\ last'.result = last.result
                /\ Len(current_line_items') = Len(current_line_items)
                /\ {current_line_items'[i] : i \in DOMAIN current_line_items'} =
                       {current_line_items[i] : i \in DOMAIN current_line_items}
                /\ current_total_cost' = current_total_cost]_vars

\* a costing result with two line items and a positive total, the state in
\* which a repeated call for the same product and quantity acts
C21_Witness ==
    /\ last.op = "calculate"
    /\ last.result = "ok"
    /\ last.product_name = cost_product_combo
    /\ last.production_quantity = cost_quantity_spinbox
    /\ Len(current_line_items) = 2
    /\ current_total_cost > 0

\* C22: for fixed stock, BOM and price the need_to_order of every material
\* is non-decreasing in the quantity to produce: the shortfall a calculation
\* shows is at least the shortfall of any smaller quantity and at most that
\* of any larger one.
C22_ShortfallMonotone ==
    (last.op = "calculate" /\ last.result = "ok") =>
        \A item \in get_bom_for_product(Tables, last.product_name) :
            \E i \in DOMAIN cost_table :
                /\ cost_table[i].material = item.name
                /\ \A q \in Quantities :
                       LET need == NeedToOrder(TotalRequired(q, item.quantity_per_unit),
                                               item.stock)
                       IN  /\ q <= last.production_quantity =>
                                  need <= cost_table[i].need_to_order
                           /\ q >= last.production_quantity =>
                                  need >= cost_table[i].need_to_order

\* a calculation for more than the minimum quantity in which one material's
\* shortfall is larger than at the minimum and another's is 0 at both
C22_Witness ==
    /\ last.op = "calculate"
    /\ last.result = "ok"
    /\ last.production_quantity > SpinMinimum
    /\ \E item, other \in get_bom_for_product(Tables, last.product_name) :
       \E i, j \in DOMAIN cost_table :
           /\ cost_table[i].material = item.name
           /\ cost_table[i].need_to_order >
                  NeedToOrder(TotalRequired(SpinMinimum, item.quantity_per_unit),
                              item.stock)
           /\ cost_table[j].material = other.name
           /\ cost_table[j].need_to_order = 0

\* C23: when a line item of a request names no material (the material was
\* renamed after the request was created), receive_material_request_stock
\* fails only on a storage error; otherwise it succeeds and sets the request
\* to Completed, and every material gains exactly the quantities of the line
\* items that carry its name, so nothing is added for that line item.
C23_RenamedMaterialSilentlySkipped ==
    [][LET items == get_request_line_items(Tables, last'.request_id)
       IN  (/\ last'.op = "receive_material_request_stock"
            /\ HeaderOf(material_requests, last'.request_id) # {}
            /\ \E i \in items : \A m \in materials : m.name # i.material_name) =>
              /\ last'.result = "error" <=> last'.fault <= Cardinality(items) + 1
              /\ last'.result = "ok" =>
                    /\ \A r \in HeaderOf(material_requests', last'.request_id) :
                           r.status = "Completed"
                    /\ HeaderOf(material_requests', last'.request_id) # {}
                    /\ \A m \in materials : \E m2 \in materials' :
                           LET named == {i \in items : i.material_name = m.name}
                           IN  /\ m2.material_id = m.material_id
                               /\ m2.name = m.name
                               /\ m2.stock = m.stock +
                                      SumOver(named, [i \in named |-> i.quantity_needed])]_vars

\* a completed receive of a request with a line item for Leather, on a store
\* whose material 1 is no longer called Leather and still has its stock
C23_Witness ==
    /\ last.op = "receive_material_request_stock"
    /\ last.result = "ok"
    /\ \E r \in material_requests :
           r.request_id = last.request_id /\ r.status = "Completed"
    /\ \E i \in get_request_line_items(Tables, last.request_id) :
           /\ i.material_name = "Leather"
           /\ \A m \in materials : m.name # "Leather"
    /\ \E m \in materials : \E m0 \in SetUpMaterials :
           /\ m.material_id = 1
           /\ m0.material_id = 1
           /\ m.stock = m0.stock

\* C25: over any sequence of lifecycle operations the line items of a
\* request are added to the stock at most once: the stock never exceeds the
\* stock before the request by more than the sum of the quantity_needed of
\* its line items.
C25_StockAddedAtMostOnce ==
    SumOver(materials, [m \in materials |-> m.stock]) <=
        SumOver(SetUpMaterials, [m \in SetUpMaterials |-> m.stock]) +
        SumOver(request_line_items, [i \in request_line_items |-> i.quantity_needed])

\* C24: nothing locks or re-checks the stock between costing and receipt:
\* for two requests calculated on the same stock, an approval is stored and a
\* receipt that meets no storage error completes the request and adds the
\* full quantity_needed of each of its line items, whatever the other request
\* has already added; after one receipt of each, the stock is the initial
\* stock plus the quantities of both requests.
C24_NoRecheckBeforeReceipt ==
    [][LET request_id == last'.request_id
           items == get_request_line_items(Tables, request_id)
       IN  /\ (/\ last'.op = "update_request_status"
                /\ last'.new_status = "Approved"
                /\ HeaderOf(material_requests, request_id) # {}) =>
                  \A r \in HeaderOf(material_requests', request_id) :
                      r.status = "Approved"
           /\ (/\ last'.op = "receive_material_request_stock"
                /\ HeaderOf(material_requests, request_id) # {}
                /\ items # {}) =>
                  /\ last'.result = "error" <=> last'.fault <= Cardinality(items) + 1
                  /\ last'.result = "ok" =>
                        /\ \A r \in HeaderOf(material_requests', request_id) :
                               r.status = "Completed"
                        /\ \A i \in items : \E m \in materials : \E m2 \in materials' :
                               /\ m.name = i.material_name
                               /\ m2.material_id = m.material_id
                               /\ m2.stock = m.stock + i.quantity_needed]_vars

\* both requests hold a line item for Leather, both are Completed, and every
\* material's stock is the set-up stock plus the quantities of both requests
C24_Witness ==
    /\ \A request_id \in 1..2 :
           /\ \E r \in material_requests :
                  r.request_id = request_id /\ r.status = "Completed"
           /\ \E i \in request_line_items :
                  i.request_id = request_id /\ i.material_name = "Leather"
    /\ \A m0 \in SetUpMaterials : \E m \in materials :
           LET named == {i \in request_line_items : i.material_name = m0.name}
           IN  /\ m.material_id = m0.material_id
               /\ m.stock = m0.stock + SumOver(named, [i \in named |-> i.quantity_needed])

\* C26: in one session of the admin dashboard every change of a request's
\* status is Pending -> Approved, Pending -> Rejected or Approved ->
\* Completed.
C26_AdminSessionTransitions ==
    [][\A r \in material_requests : \A r2 \in material_requests' :
           (r2.request_id = r.request_id /\ r2.status # r.status) =>
               <<r.status, r2.status>> \in {<<"Pending", "Approved">>,
                                            <<"Pending", "Rejected">>,
                                            <<"Approved", "Completed">>}]_vars

\* the list shows one request Completed and the other Rejected, as stored,
\* after the stock of the completed one was received
C26_Witness ==
    /\ last.op = "receive_material_request_stock"
    /\ last.result = "ok"
    /\ Len(requests_tab.requests_table) = 2
    /\ \E i, j \in DOMAIN requests_tab.requests_table :
           /\ requests_tab.requests_table[i].status = "Completed"
           /\ requests_tab.requests_table[j].status = "Rejected"
    /\ \A i \in DOMAIN requests_tab.requests_table :
           \E r \in material_requests :
               /\ r.request_id = requests_tab.requests_table[i].request_id
               /\ r.status = requests_tab.requests_table[i].status
    /\ ~requests_tab.receive_stock_button

\* C27: every request persisted through calculate-then-submit has at least
\* one line item (so that a receipt of it, once Approved, finds line items
\* and can complete it).
C27_EveryRequestHasLineItems ==
    \A r \in material_requests :
        get_request_line_items(Tables, r.request_id) # {}

\* C28: the header of every request persisted by the employee dashboard
\* names the product and the quantity for which its line items and its total
\* cost were computed: the line items are the shortfalls of that product's
\* BOM for that quantity, and the total is their cost.
C28_HeaderMatchesLineItems ==
    \A r \in material_requests :
        LET bom_items == get_bom_for_product(Tables, r.product_name)
            items == get_request_line_items(Tables, r.request_id)
            Need(item) == Max(0, r.production_quantity * item.quantity_per_unit
                                    - item.stock)
        IN  /\ \A i \in items : \E item \in bom_items :
                   /\ item.name = i.material_name
                   /\ i.quantity_needed = Need(item)
            /\ \A item \in bom_items :
                   Need(item) > 0 => \E i \in items : i.material_name = item.name
            /\ r.total_cost =
                   SumOver(bom_items, [item \in bom_items |-> Need(item) * item.price])

\* C29: the total_cost of every request created through calculate-then-
\* submit equals the sum of the costs of its persisted line items, as long
\* as the request is in the store: the items that are not persisted cost
\* nothing.
C29_TotalIsSumOfLineItems ==
    \A r \in material_requests :
        LET items == get_request_line_items(Tables, r.request_id)
        IN  r.total_cost = SumOver(items, [i \in items |-> i.cost])

\* a submitted result with a total above 0 of which a zero-shortfall item
\* was not persisted
C29_Witness ==
    /\ last.op = "submit"
    /\ last.result = "ok"
    /\ \E i \in DOMAIN last.line_items : last.line_items[i].quantity_needed = 0
    /\ \E r \in material_requests :
           /\ r.request_id = last.request_id
           /\ r.total_cost > 0
           /\ Cardinality(get_request_line_items(Tables, r.request_id)) <
                  Len(last.line_items)

====
